---- MODULE Spec2Model ----
(***************************************************************************)
(* A model of cache_detect.c: the pointer-chase cache-size benchmark, and   *)
(* of the timing-based detection of gptoss.c.                              *)
(*                                                                         *)
(* The program is single-threaded.  Its parts are modelled by the same     *)
(* variables under several specifications, one per part of the program:    *)
(*   Spec         the Driver (main): parse_args' clamps, generate_sizes,   *)
(*                the allocations with their failures, and the measurement *)
(*                loop's graph construction (build_cycle_pattern);         *)
(*   SpecSizes    generate_sizes over bounded inputs;                      *)
(*   SpecDetect   detect_boundaries and main's summary over sample curves; *)
(*   SpecMeasure  the timing loop of measure_ns_per_access                 *)
(*                (SpecMeasureFair: the same with its steps taken);        *)
(*   SpecRng      one call of rng_uniform;                                 *)
(*   SpecTiming   gptoss.c: timing_cache_detection.                        *)
(*                                                                         *)
(* Representation.  C arrays indexed by node (order, the Buffer's          *)
(* next-pointer words) are functions on 0..n-1.  The lists sizes[],        *)
(* samples[] and bounds[] are sequences: the C element x[i] is x[i+1].     *)
(* size_t is SizeBits wide (SIZE_MAX = 2^SizeBits - 1) and its arithmetic  *)
(* wraps modulo 2^SizeBits.  A double is modelled by an exact rational:    *)
(* latencies are integers and a ratio is a pair <<numerator, denominator>>;*)
(* comparisons are cross-multiplied.                                       *)
(***************************************************************************)
EXTENDS Integers, Sequences, FiniteSets, TLC

VARIABLES
    pc,            \* position of the modelled part of the program
    opt,           \* Options: min_bytes, max_bytes, node_stride, pattern, ...
    max_samples,   \* out_cap handed to generate_sizes
    sizes,         \* sizes[0 .. num_sizes-1] (Len(sizes) = num_sizes)
    alloc_idx,     \* main: index of the size being allocated
    alloc_bytes,   \* main: bytes of the Buffer being allocated
    raw,           \* main: "NULL" or "allocated"
    max_nodes,     \* main: alloc_bytes / node_stride
    perm,          \* the Permutation scratch, a function on 0..max_nodes-1
    mem,           \* the Buffer's next-pointer words, by node index
    idx,           \* main: the measurement loop's i
    nodes,         \* measure_ns_per_access: nodes of the last measurement
    stderr,        \* the diagnostics written to the error stream
    failures,      \* number of allocation failures that have happened
    exit_code,     \* "running", or main's return value "0" or "1"
    samples,       \* the Sample array handed to detect_boundaries
    xform,         \* <<a, b>>: the transform ns -> a*ns + b of a second curve
    bounds,        \* result of detect_boundaries: [found, out, at]
    bounds_x,      \* result of detect_boundaries on the transformed curve
    printed,       \* what main's summary loop read from bounds[]
    steps,         \* measure_ns_per_access: the step count
    r,             \* measure_ns_per_access: the repeat loop's r
    best_ns_per,   \* measure_ns_per_access: best latency so far
    chased,        \* the step counts passed to chase() by the timed runs
    rng_n,         \* rng_uniform: its argument n
    rng_x,         \* rng_uniform: the last word drawn by rng_next
    rng_ret,       \* rng_uniform: the value returned, NoValue before it returns
    current_size,  \* gptoss.c timing_cache_detection: current_size
    prev_size,     \* gptoss.c timing_cache_detection: prev_size
    prev_lat,      \* gptoss.c timing_cache_detection: prev_lat
    level,         \* gptoss.c timing_cache_detection: level
    tested,        \* gptoss.c: the array sizes measured so far
    jumps,         \* gptoss.c: the number of latency jumps seen
    reported       \* gptoss.c: the sizes printed by print_cache_kb

vars == <<pc, opt, max_samples, sizes, alloc_idx, alloc_bytes, raw, max_nodes,
          perm, mem, idx, nodes, stderr, failures, exit_code, samples, xform,
          bounds, bounds_x, printed, steps, r, best_ns_per, chased,
          rng_n, rng_x, rng_ret,
          current_size, prev_size, prev_lat, level, tested, jumps, reported>>

driverVars  == <<alloc_idx, alloc_bytes, raw, max_nodes, perm, mem, idx, nodes,
                 stderr, failures, exit_code>>
detectVars  == <<samples, xform, bounds, bounds_x, printed>>
measureVars == <<steps, r, best_ns_per, chased>>
rngVars     == <<rng_n, rng_x, rng_ret>>
timingVars  == <<current_size, prev_size, prev_lat, level, tested, jumps, reported>>

-----------------------------------------------------------------------------
(* Bounds of the model *)

\* width of size_t in bits (at least 21: the code compares with 1u << 20)
SizeBits == 23
\* width of one rng_next() word in bits
RngBits == 4
\* a small output capacity for generate_sizes
SmallCap == 3

(* Program constants *)

SIZE_MAX == 2^SizeBits - 1
MinSizePow2 == 1024
DenseLimit1M == 1048576
DenseLimit128K == 131072
MaxSamples == 1024
OutCap == 8
PtrSize == 8

Min(a, b) == IF a < b THEN a ELSE b
Max(a, b) == IF a > b THEN a ELSE b

\* size_t arithmetic wraps
Sz(x) == x % (SIZE_MAX + 1)
Shl1(p) == Sz(2 * p)

-----------------------------------------------------------------------------
(* generate_sizes *)

\* highest power of two <= min_bytes, found without builtins
RECURSIVE HighestPow2Le(_, _)
HighestPow2Le(p, min_bytes) ==
    IF Shl1(p) > p /\ Shl1(p) <= min_bytes
    THEN HighestPow2Le(Shl1(p), min_bytes)
    ELSE p

\* if (count < out_cap) out[count++] = v;
Emit(out, v, out_cap) == IF Len(out) < out_cap THEN Append(out, v) ELSE out

\* if (v >= min_bytes && v <= max_bytes) { if (count < out_cap) out[count++] = v; }
EmitInRange(out, v, min_bytes, max_bytes, out_cap) ==
    IF v >= min_bytes /\ v <= max_bytes THEN Emit(out, v, out_cap) ELSE out

\* the power of two itself: emitted when p >= min_bytes
EmitPow2Drop(out, p, min_bytes, out_cap) == out
EmitPow2(out, p, min_bytes, out_cap) ==
    IF p >= min_bytes THEN Emit(out, p, out_cap) ELSE out

\* the values 1.25x and 1.75x, for p <= 1 MiB
EmitQuarters(out, p, min_bytes, max_bytes, out_cap) ==
    IF p <= DenseLimit1M
    THEN LET v125 == Sz(p + p \div 4)
             v175 == Sz(p + Sz(p * 3) \div 4)
         IN  EmitInRange(EmitInRange(out, v125, min_bytes, max_bytes, out_cap),
                         v175, min_bytes, max_bytes, out_cap)
    ELSE out

\* the values 1.125x, 1.375x, 1.625x and 1.875x, for p <= 128 KiB
EmitEighths(out, p, min_bytes, max_bytes, out_cap) ==
    IF p <= DenseLimit128K
    THEN LET v1125 == Sz(p + p \div 8)
             v1375 == Sz(p + Sz(p * 3) \div 8)
             v1625 == Sz(p + Sz(p * 5) \div 8)
             v1875 == Sz(p + Sz(p * 7) \div 8)
             o1 == EmitInRange(out, v1125, min_bytes, max_bytes, out_cap)
             o2 == EmitInRange(o1, v1375, min_bytes, max_bytes, out_cap)
             o3 == EmitInRange(o2, v1625, min_bytes, max_bytes, out_cap)
         IN  EmitInRange(o3, v1875, min_bytes, max_bytes, out_cap)
    ELSE out

\* one pass of the for loop's body
SizesBody(out, p, min_bytes, max_bytes, out_cap) ==
    LET o1 == EmitPow2(out, p, min_bytes, out_cap)
        o2 == EmitInRange(o1, Sz(p + p \div 2), min_bytes, max_bytes, out_cap)
        o3 == EmitQuarters(o2, p, min_bytes, max_bytes, out_cap)
    IN  EmitEighths(o3, p, min_bytes, max_bytes, out_cap)

\* for (; p <= max_bytes; p <<= 1) { body; if (p > (SIZE_MAX >> 1)) break; }
\* (count <= out_cap holds after every pass; reading count here makes the
\* evaluation of each pass finish before the next one starts)
RECURSIVE SizesLoop(_, _, _, _, _)
SizesLoop(out, p, min_bytes, max_bytes, out_cap) ==
    IF p <= max_bytes
    THEN LET o == SizesBody(out, p, min_bytes, max_bytes, out_cap)
         IN  IF Len(o) > out_cap \/ p > SIZE_MAX \div 2
             THEN o
             ELSE SizesLoop(o, Shl1(p), min_bytes, max_bytes, out_cap)
    ELSE out

\* cmp_size_t's order: the number of elements that sort before s[j]
Rank(s, j) ==
    Cardinality({m \in 1..Len(s) : s[m] < s[j] \/ (s[m] = s[j] /\ m < j)})

SortAsc(s) ==
    [k \in 1..Len(s) |-> s[CHOOSE j \in 1..Len(s) : Rank(s, j) = k - 1]]

\* qsort(out, count, sizeof(out[0]), cmp_size_t)
qsort_unsorted(out) == out
qsort(out) == SortAsc(out)

generate_sizes(min_bytes, max_bytes, out_cap) ==
    LET p0 == HighestPow2Le(1, min_bytes)
        p  == IF p0 < MinSizePow2 THEN MinSizePow2 ELSE p0
    IN  qsort(SizesLoop(<<>>, p, min_bytes, max_bytes, out_cap))

-----------------------------------------------------------------------------
(* PRNG: one rng_next() word is RngBits wide.  The generator's state is     *)
(* seeded from the clock, a stack address and the pid, so a word is any     *)
(* value of 0..RngMax.                                                      *)

RngMax == 2^RngBits - 1

\* uint64_t threshold = (~(uint64_t)0) % n;
rng_threshold(n) == RngMax % n

\* the words x for which rng_uniform's loop returns: if (x >= threshold)
rng_accepts(x, n) == x >= rng_threshold(n)

\* return (size_t)(x % n);
rng_uniform(x, n) == x % n

-----------------------------------------------------------------------------
(* OrderBuilder: each build_order_* returns the entries order[0 .. n-1] it  *)
(* writes, as a function on 0..n-1.                                         *)

RECURSIVE Xor(_, _)
Xor(a, b) ==
    IF a = 0 THEN b
    ELSE IF b = 0 THEN a
    ELSE 2 * Xor(a \div 2, b \div 2) + (((a % 2) + (b % 2)) % 2)

Swap(order, i, j) == [order EXCEPT ![i] = order[j], ![j] = order[i]]

build_order_sequential(num_nodes) == [i \in 0..(num_nodes - 1) |-> i]

\* Fisher-Yates, for i = num_nodes - 1 down to 1; js[i] is rng_uniform(rng, i + 1)
RECURSIVE Shuffle(_, _, _)
Shuffle(order, i, js) ==
    IF i = 0 THEN order ELSE Shuffle(Swap(order, i, js[i]), i - 1, js)

build_order_random(num_nodes, js) ==
    Shuffle(build_order_sequential(num_nodes), num_nodes - 1, js)

build_order_reverse(num_nodes) == [i \in 0..(num_nodes - 1) |-> num_nodes - 1 - i]

\* while (!visited[i]) { order[count++] = i; visited[i] = 1; i = (i + k) % num_nodes; }
RECURSIVE StrideWalk(_, _, _, _, _)
StrideWalk(out, visited, i, k, num_nodes) ==
    IF i \in visited
    THEN [out |-> out, visited |-> visited]
    ELSE StrideWalk(Append(out, i), visited \cup {i}, Sz(i + k) % num_nodes,
                    k, num_nodes)

\* while (start < num_nodes && visited[start]) start++;
RECURSIVE StrideSkip(_, _, _)
StrideSkip(start, visited, num_nodes) ==
    IF start < num_nodes /\ start \in visited
    THEN StrideSkip(start + 1, visited, num_nodes)
    ELSE start

\* while (count < num_nodes) { walk; if (count < num_nodes) { skip; if (start >= num_nodes) break; } }
RECURSIVE StrideLoop(_, _, _, _, _)
StrideLoop(out, visited, start, k, num_nodes) ==
    IF Len(out) < num_nodes
    THEN LET w == StrideWalk(out, visited, start, k, num_nodes)
         IN  IF Len(w.out) < num_nodes
             THEN LET s == StrideSkip(start, w.visited, num_nodes)
                  IN  IF s >= num_nodes
                      THEN w.out
                      ELSE StrideLoop(w.out, w.visited, s, k, num_nodes)
             ELSE w.out
    ELSE out

\* calloc_ok: whether calloc(num_nodes, 1) returned the visited array
build_order_stride(num_nodes, k0, calloc_ok) ==
    LET k == IF k0 = 0 THEN 1 ELSE k0
    IN  IF ~calloc_ok
        THEN build_order_sequential(num_nodes)
        ELSE LET out == StrideLoop(<<>>, {}, 0, k, num_nodes)
             IN  [i \in 0..(Len(out) - 1) |-> out[i + 1]]

build_order_interleave_even(num_nodes) ==
    LET half == num_nodes \div 2
    IN  [j \in 0..(2 * half - 1) |-> IF j % 2 = 0 THEN j \div 2 ELSE j \div 2 + half]
build_order_interleave(num_nodes) ==
    LET half == num_nodes \div 2
    IN  [j \in 0..(2 * half - 1 + (num_nodes % 2)) |->
            IF j < 2 * half
            THEN (IF j % 2 = 0 THEN j \div 2 ELSE j \div 2 + half)
            ELSE num_nodes - 1]

\* m: the largest power of two <= num_nodes
build_order_gray(num_nodes) ==
    LET m == HighestPow2Le(1, num_nodes)
    IN  [i \in 0..(num_nodes - 1) |-> IF i < m THEN Xor(i, i \div 2) ELSE i]

\* for (i = 0; i < bits; ++i) r = (r << 1) | ((x >> i) & 1u);
RECURSIVE ReverseBitsFrom(_, _, _, _)
ReverseBitsFrom(rv, x, i, bits) ==
    IF i < bits
    THEN ReverseBitsFrom(Sz(2 * rv) + ((x \div 2^i) % 2), x, i + 1, bits)
    ELSE rv

reverse_bits_limited(x, bits) == ReverseBitsFrom(0, x, 0, bits)

\* while (tmp > 0) { bits++; tmp >>= 1; }
RECURSIVE BitsOf(_)
BitsOf(tmp) == IF tmp > 0 THEN 1 + BitsOf(tmp \div 2) ELSE 0

RECURSIVE BitrevLoop(_, _, _, _, _)
BitrevLoop(out, i, limit, bits, num_nodes) ==
    IF i < limit
    THEN LET rev == reverse_bits_limited(i, bits)
             o   == IF rev < num_nodes THEN Append(out, rev) ELSE out
         IN  IF Len(o) = num_nodes
             THEN o
             ELSE BitrevLoop(o, i + 1, limit, bits, num_nodes)
    ELSE out

build_order_bitrev(num_nodes) ==
    LET bits == BitsOf(num_nodes - 1)
        out  == BitrevLoop(<<>>, 0, 2^bits, bits, num_nodes)
    IN  [i \in 0..(Len(out) - 1) |-> out[i + 1]]

\* the switch of build_cycle_pattern
OrderBuilder(p, num_nodes, pattern_arg, js, calloc_ok) ==
    CASE p = "random"     -> build_order_random(num_nodes, js)
      [] p = "sequential" -> build_order_sequential(num_nodes)
      [] p = "reverse"    -> build_order_reverse(num_nodes)
      [] p = "stride"     ->
            build_order_stride(num_nodes,
                               IF pattern_arg = 0 THEN 1 ELSE pattern_arg,
                               calloc_ok)
      [] p = "interleave" -> build_order_interleave(num_nodes)
      [] p = "gray"       -> build_order_gray(num_nodes)
      [] p = "bitrev"     -> build_order_bitrev(num_nodes)
      [] OTHER            -> build_order_random(num_nodes, js)

-----------------------------------------------------------------------------
(* ChaseGraph and ChaseKernel.  A pointer into the Buffer is modelled by    *)
(* its byte offset from base; the zeroed Buffer holds NULL, which is the    *)
(* address of no node.  m maps the offset of a node to the pointer stored   *)
(* in the node's first word.                                                *)

\* the null pointer left in every word by memset(base, 0, alloc_bytes)
NULL == -1
\* an entry of the malloc'ed Permutation scratch that was never written
Uninitialized == -1

\* to = order[(i + 1) % num_nodes]
NextInOrderSelf(order, i, num_nodes) == order[i]
NextInOrder(order, i, num_nodes) == order[(i + 1) % num_nodes]

\* *(void **)(base + from * node_stride) = base + to * node_stride, for i = 0 .. num_nodes-1
RECURSIVE CycleFrom(_, _, _, _, _)
CycleFrom(m, i, num_nodes, node_stride, order) ==
    IF i < num_nodes
    THEN LET from == order[i]
             to   == NextInOrder(order, i, num_nodes)
             from_ptr == Sz(from * node_stride)
             to_ptr   == Sz(to * node_stride)
         IN  CycleFrom((from_ptr :> to_ptr) @@ m, i + 1, num_nodes, node_stride, order)
    ELSE m

build_cycle_from_order(m, num_nodes, node_stride, order) ==
    CycleFrom(m, 0, num_nodes, node_stride, order)

\* for (i = 0; i < steps; ++i) p = *(void * volatile *)p;
RECURSIVE chase(_, _, _)
chase(m, head, count) == IF count = 0 THEN head ELSE chase(m, m[head], count - 1)

-----------------------------------------------------------------------------
(* Options and the values of the variables a specification does not use *)

Patterns == {"random", "sequential", "reverse", "stride", "interleave",
             "gray", "bitrev", "unknown"}

\* parse_args' defaults
DefaultOpt ==
    [min_bytes |-> 4096, max_bytes |-> Min(268435456, SIZE_MAX), node_stride |-> 256,
     warmup_iters |-> 3, target_ms |-> 80, repeats |-> 3,
     pattern |-> "random", pattern_arg |-> 1]

NoBounds == [found |-> 0, out |-> <<>>, at |-> <<>>]
\* the content of a Boundary that detect_boundaries did not write
NoEntry == [approx_size_bytes |-> 0, ratio |-> <<0, 0>>]

DriverIdle ==
    /\ alloc_idx = 0 /\ alloc_bytes = 0 /\ raw = "NULL" /\ max_nodes = 0
    /\ perm = <<>> /\ mem = <<>> /\ idx = 0 /\ nodes = 0
    /\ stderr = <<>> /\ failures = 0 /\ exit_code = "running"

DetectIdle ==
    /\ samples = <<>> /\ xform = <<1, 0>> /\ bounds = NoBounds
    /\ bounds_x = NoBounds /\ printed = <<>>

\* a step count not yet set, and double best_ns_per = 1e300 (no run recorded)
NoSteps == [m |-> 0, e |-> 0]
NoBest == [none |-> TRUE, dt |-> 0, steps |-> NoSteps]
NoRuns == [runs |-> 0, first |-> NoSteps, last |-> NoSteps, recorded |-> <<>>]

MeasureIdle ==
    /\ steps = NoSteps /\ r = 0 /\ best_ns_per = NoBest /\ chased = NoRuns

\* no value returned yet
NoValue == -1

RngIdle == rng_n = 1 /\ rng_x = 0 /\ rng_ret = NoValue

TimingIdle ==
    /\ current_size = 0 /\ prev_size = 0 /\ prev_lat = 0 /\ level = 1
    /\ tested = <<>> /\ jumps = 0 /\ reported = <<>>

-----------------------------------------------------------------------------
(* main: size_t num_sizes = generate_sizes(...); if (num_sizes == 0) ... *)

GenerateSizes ==
    /\ pc = "generate"
    /\ LET out == generate_sizes(opt.min_bytes, opt.max_bytes, max_samples)
       IN  /\ sizes' = out
           /\ IF Len(out) = 0
              THEN /\ stderr' = Append(stderr, "No sizes to test.")
                   /\ exit_code' = "1"
                   /\ pc' = "exit"
                   /\ UNCHANGED <<alloc_idx, alloc_bytes>>
              ELSE /\ alloc_idx' = Len(out) - 1
                   /\ alloc_bytes' = out[Len(out)]
                   /\ pc' = "alloc"
                   /\ UNCHANGED <<stderr, exit_code>>
    /\ UNCHANGED <<opt, max_samples, raw, max_nodes, perm, mem, idx, nodes,
                   failures>>
    /\ UNCHANGED <<detectVars, measureVars>>
    /\ UNCHANGED <<rngVars, timingVars>>

-----------------------------------------------------------------------------
(* main: parse_args' sanity bounds *)

clamp_size(v, lo, hi) == IF v < lo THEN lo ELSE IF v > hi THEN hi ELSE v

\* hi = min(4 GiB, SIZE_MAX); 4 GiB exceeds SIZE_MAX when size_t is narrower
\* than 33 bits, and hi is then SIZE_MAX
ClampHi == SIZE_MAX

ParseArgs ==
    /\ pc = "parse"
    /\ LET lo == clamp_size(opt.min_bytes, Sz(opt.node_stride * 2), opt.max_bytes)
           hi == clamp_size(opt.max_bytes, lo, ClampHi)
       IN  opt' = [opt EXCEPT !.min_bytes = lo, !.max_bytes = hi]
    /\ pc' = "generate"
    /\ UNCHANGED <<max_samples, sizes, driverVars, detectVars, measureVars>>
    /\ UNCHANGED <<rngVars, timingVars>>

-----------------------------------------------------------------------------
(* main: the Buffer, the Permutation scratch and the Sample array *)

\* posix_memalign fails with EINVAL unless the alignment is a power of two
\* and a multiple of sizeof(void *)
AlignmentValid(node_stride) ==
    /\ \E e \in 0..(SizeBits - 1) : node_stride = 2^e
    /\ node_stride % PtrSize = 0

\* while ((err != 0 || raw == NULL) && alloc_idx > 0): a failed allocation is
\* retried with the next smaller size
CanRetryNever(i) == FALSE
CanRetry(i) == i > 0

\* one posix_memalign(&raw, node_stride, alloc_bytes) with what follows its result
AllocBuffer ==
    /\ pc = "alloc"
    /\ \E ok \in BOOLEAN :
          /\ ok => AlignmentValid(opt.node_stride)
          /\ IF ok
             THEN /\ raw' = "allocated"
                  /\ pc' = "perm"
                  /\ UNCHANGED <<alloc_idx, alloc_bytes, stderr, failures, exit_code>>
             ELSE /\ failures' = failures + 1
                  /\ raw' = "NULL"
                  /\ IF CanRetry(alloc_idx)
                     THEN /\ stderr' = Append(stderr, "Allocation failed. Retrying with smaller size...")
                          /\ alloc_idx' = alloc_idx - 1
                          /\ alloc_bytes' = sizes[alloc_idx]
                          /\ pc' = "alloc"
                          /\ UNCHANGED exit_code
                     ELSE /\ stderr' = Append(stderr, "Allocation failed even for smallest size")
                          /\ exit_code' = "1"
                          /\ pc' = "exit"
                          /\ UNCHANGED <<alloc_idx, alloc_bytes>>
    /\ UNCHANGED <<opt, max_samples, sizes, max_nodes, perm, mem, idx, nodes>>
    /\ UNCHANGED <<detectVars, measureVars>>
    /\ UNCHANGED <<rngVars, timingVars>>

\* while (num_sizes > 0 && sizes[num_sizes - 1] > alloc_bytes) num_sizes--;
RECURSIVE TrimSizes(_, _)
TrimSizes(s, bytes) ==
    IF Len(s) > 0 /\ s[Len(s)] > bytes
    THEN TrimSizes(SubSeq(s, 1, Len(s) - 1), bytes)
    ELSE s

\* the trim of the size list, memset(base, 0, alloc_bytes), max_nodes and
\* malloc(max_nodes * sizeof(size_t))
AllocPerm ==
    /\ pc = "perm"
    /\ sizes' = TrimSizes(sizes, alloc_bytes)
    /\ max_nodes' = alloc_bytes \div opt.node_stride
    /\ mem' = [o \in {Sz(k * opt.node_stride) : k \in 0..(max_nodes' - 1)} |-> NULL]
    /\ \E ok \in BOOLEAN :
          IF ok
          THEN /\ perm' = [k \in 0..(max_nodes' - 1) |-> Uninitialized]
               /\ pc' = "samples"
               /\ UNCHANGED <<stderr, failures, exit_code, raw>>
          ELSE /\ failures' = failures + 1
               /\ stderr' = Append(stderr, "Permutation allocation failed")
               /\ raw' = "NULL"
               /\ exit_code' = "1"
               /\ pc' = "exit"
               /\ UNCHANGED perm
    /\ UNCHANGED <<opt, max_samples, alloc_idx, alloc_bytes, idx, nodes>>
    /\ UNCHANGED <<detectVars, measureVars>>
    /\ UNCHANGED <<rngVars, timingVars>>

\* calloc(num_sizes, sizeof(Sample)), then the seed and the table's header
AllocSamples ==
    /\ pc = "samples"
    /\ \E ok \in BOOLEAN :
          IF ok
          THEN /\ pc' = "measure"
               /\ idx' = 0
               /\ UNCHANGED <<stderr, failures, exit_code, raw, perm>>
          ELSE /\ failures' = failures + 1
               /\ stderr' = Append(stderr, "Sample allocation failed")
               /\ raw' = "NULL"
               /\ perm' = <<>>
               /\ exit_code' = "1"
               /\ pc' = "exit"
               /\ UNCHANGED idx
    /\ UNCHANGED <<opt, max_samples, sizes, alloc_idx, alloc_bytes, max_nodes,
                   mem, nodes>>
    /\ UNCHANGED <<detectVars, measureVars>>
    /\ UNCHANGED <<rngVars, timingVars>>

-----------------------------------------------------------------------------
(* main's loop body: measure_ns_per_access(base, sizes[i], ...) up to the   *)
(* warmup.  Its timing loop changes none of these variables and is          *)
(* modelled under SpecMeasure.                                              *)

\* size_t nodes = working_set_bytes / node_stride; if (nodes < 2) nodes = 2;
NumNodes(working_set_bytes, node_stride) ==
    LET n == working_set_bytes \div node_stride IN IF n < 2 THEN 2 ELSE n

\* what one call rng_uniform(rng, n) can return: x % n of an accepted word x
UniformResults(n) ==
    {rng_uniform(x, n) : x \in {y \in 0..RngMax : rng_accepts(y, n)}}

\* the draws of one Fisher-Yates shuffle of n nodes: js[i] = rng_uniform(rng, i + 1)
ShuffleDraws(n) ==
    {js \in [1..(n - 1) -> 0..(n - 1)] : \A i \in 1..(n - 1) : js[i] \in UniformResults(i + 1)}

UsesRng(p) == p \notin {"sequential", "reverse", "stride", "interleave", "gray", "bitrev"}

\* the entries written over an array
Written(old, new) == [k \in (DOMAIN old) \cup (DOMAIN new) |->
                         IF k \in DOMAIN new THEN new[k] ELSE old[k]]

Measure ==
    /\ pc = "measure"
    /\ idx < Len(sizes)
    /\ LET ws == sizes[idx + 1]
           n  == NumNodes(ws, opt.node_stride)
       IN  /\ nodes' = n
           /\ \E js \in (IF UsesRng(opt.pattern) THEN ShuffleDraws(n) ELSE {<<>>}),
                 calloc_ok \in (IF opt.pattern = "stride" THEN BOOLEAN ELSE {TRUE}) :
                 LET order == OrderBuilder(opt.pattern, n, opt.pattern_arg, js, calloc_ok)
                 IN  /\ perm' = Written(perm, order)
                     /\ mem' = build_cycle_from_order(mem, n, opt.node_stride, perm')
                     /\ failures' = IF calloc_ok THEN failures ELSE failures + 1
           \* the warmup: chase(head, nodes), warmup_iters times, from head = base
           /\ opt.warmup_iters > 0 => chase(mem', 0, n) \in DOMAIN mem'
           \* writes past the end of perm and of the Buffer are undefined
           \* behaviour: the process is killed or goes on with the words written
           /\ \E killed \in (IF n > max_nodes THEN BOOLEAN ELSE {FALSE}) :
                 /\ pc' = IF killed THEN "exit" ELSE pc
                 /\ exit_code' = IF killed THEN "killed" ELSE exit_code
    /\ idx' = idx + 1
    /\ UNCHANGED <<opt, max_samples, sizes, alloc_idx, alloc_bytes, raw,
                   max_nodes, stderr>>
    /\ UNCHANGED <<detectVars, measureVars>>
    /\ UNCHANGED <<rngVars, timingVars>>

\* after the loop: the summary is printed and main returns 0
Finish ==
    /\ pc = "measure"
    /\ idx >= Len(sizes)
    /\ pc' = "exit"
    /\ exit_code' = "0"
    /\ raw' = "NULL"
    /\ perm' = <<>>
    /\ UNCHANGED <<opt, max_samples, sizes, alloc_idx, alloc_bytes, max_nodes,
                   mem, idx, nodes, stderr, failures>>
    /\ UNCHANGED <<detectVars, measureVars>>
    /\ UNCHANGED <<rngVars, timingVars>>

-----------------------------------------------------------------------------
(* Spec: the Driver *)

\* the largest max_bytes explored with a shuffled order
RandomMaxBytes == 2560

MinBytesChoices == {1, 1536, 5000}
MaxBytesChoices == {100, 2560, 4096}
StrideChoices == {384, 512, 2048}
PatternArgChoices == {0, 1, 3, SIZE_MAX}

Init ==
    /\ pc = "parse"
    /\ \E lo \in MinBytesChoices, hi \in MaxBytesChoices, st \in StrideChoices,
          p \in Patterns, k \in PatternArgChoices :
          /\ UsesRng(p) => hi <= RandomMaxBytes
          /\ opt = [DefaultOpt EXCEPT !.min_bytes = lo, !.max_bytes = hi,
                                      !.node_stride = st, !.pattern = p,
                                      !.pattern_arg = k]
    /\ max_samples = MaxSamples
    /\ sizes = <<>>
    /\ DriverIdle /\ DetectIdle /\ MeasureIdle
    /\ RngIdle /\ TimingIdle

Next ==
    \/ ParseArgs
    \/ GenerateSizes
    \/ AllocBuffer
    \/ AllocPerm
    \/ AllocSamples
    \/ Measure
    \/ Finish

Spec == Init /\ [][Next]_vars

Measured == pc = "measure" /\ idx > 0

\* C1: after build_cycle_pattern's OrderBuilder step, for every pattern and
\* pattern_arg, order[0 .. num_nodes-1] holds each index of [0, num_nodes)
\* exactly once.
C1_Permutation ==
    Measured =>
        /\ nodes >= 2
        /\ 0..(nodes - 1) \subseteq DOMAIN perm
        /\ \A v \in 0..(nodes - 1) :
              Cardinality({i \in 0..(nodes - 1) : perm[i] = v}) = 1

\* a stride order of five nodes or more with a step above the node count,
\* which is not the sequential order
C1_Witness ==
    /\ Measured
    /\ opt.pattern = "stride"
    /\ opt.pattern_arg >= nodes
    /\ nodes >= 5
    /\ perm[1] # 1

\* the offsets of the nodes [0, num_nodes)
NodeOffsets == {Sz(k * opt.node_stride) : k \in 0..(nodes - 1)}

\* C2: after every measurement on the reused Buffer, the next-pointers of the
\* nodes [0, num_nodes) form one cycle of length num_nodes: from any node,
\* num_nodes steps visit every node of [0, num_nodes) once and end at the start.
C2_SingleCycle ==
    Measured =>
        \A h \in NodeOffsets :
            /\ {chase(mem, h, t) : t \in 0..(nodes - 1)} = NodeOffsets
            /\ Cardinality(NodeOffsets) = nodes
            /\ chase(mem, h, nodes) = h

\* a shuffled cycle of five nodes written over the cycles of ten earlier
\* measurements of fewer nodes
C2_Witness ==
    /\ Measured
    /\ idx = 11
    /\ nodes = 5
    /\ opt.pattern = "random"
    /\ mem[0] = 3 * opt.node_stride
    /\ mem[opt.node_stride] = 0

Last(q) == q[Len(q)]

\* C9 as stated: an allocation failure is fatal only when the Buffer cannot be
\* allocated at the smallest size; every other allocation failure is retried
\* with the next smaller size.
C9_Original ==
    (exit_code = "1" /\ failures > 0) =>
        Last(stderr) = "Allocation failed even for smallest size"

\* C9 amended: a failure to allocate the Buffer is fatal (exit code 1) only at
\* the smallest size of the list; at any larger size the Driver retries with
\* the next smaller size and goes on with the list shortened to the size it
\* could allocate.  A failure to allocate the Permutation scratch or the
\* Sample array is fatal (exit code 1).
C9_AllocationFailures ==
    [][/\ (failures' > failures /\ pc = "alloc" /\ alloc_idx > 0) =>
              /\ pc' = "alloc" /\ exit_code' = "running"
              /\ alloc_idx' = alloc_idx - 1
              /\ alloc_bytes' = sizes[alloc_idx' + 1]
       /\ (failures' > failures /\ pc = "alloc" /\ alloc_idx = 0) =>
              pc' = "exit" /\ exit_code' = "1"
       /\ (failures' > failures /\ pc \in {"perm", "samples"}) =>
              pc' = "exit" /\ exit_code' = "1"
       /\ pc' = "samples" =>
              /\ Len(sizes') = alloc_idx + 1
              /\ Last(sizes') = alloc_bytes]_vars

\* a run that goes on with a shortened list after two failed Buffer allocations
C9_Witness ==
    /\ pc = "measure"
    /\ failures = 2
    /\ Len(stderr) = 2
    /\ Len(sizes) = 9
    /\ alloc_bytes = 2048

\* C10: every allocation failure is followed by a diagnostic on the error
\* stream before the program continues or exits.
C10_Diagnostics == [][failures' > failures => Len(stderr') > Len(stderr)]_vars

\* the orbit of i -> (i + k) mod n from i, appended to out until it closes
RECURSIVE Orbit(_, _, _, _)
Orbit(out, i, k, n) ==
    IF \E t \in 1..Len(out) : out[t] = i
    THEN out
    ELSE Orbit(Append(out, i), (i + k) % n, k, n)

\* the orbits one after the other, each started at the smallest index not yet listed
RECURSIVE OrbitOrder(_, _, _)
OrbitOrder(out, k, n) ==
    IF Len(out) >= n
    THEN out
    ELSE LET start == CHOOSE i \in 0..(n - 1) :
                          /\ \A t \in 1..Len(out) : out[t] # i
                          /\ \A j \in 0..(i - 1) : \E t \in 1..Len(out) : out[t] = j
         IN  OrbitOrder(Orbit(out, start, k, n), k, n)

\* a measurement with the stride pattern whose visited array was allocated
StrideMeasured ==
    /\ Measured
    /\ opt.pattern = "stride"
    /\ opt.pattern_arg >= 1
    /\ failures = Len(stderr)

\* C14: for every n >= 2 and k >= 1, build_order_stride outputs the orbits of
\* i -> (i + k) mod n one after the other, the first from index 0, each next
\* one from the smallest index not yet visited; for n = 8, k = 3 the output is
\* [0,3,6,1,4,7,2,5].
C14_Orbits ==
    StrideMeasured =>
        /\ \A i \in 0..(nodes - 1) :
              perm[i] = OrbitOrder(<<>>, opt.pattern_arg, nodes)[i + 1]
        /\ (nodes = 8 /\ opt.pattern_arg = 3) =>
              \A i \in 0..7 : perm[i] = <<0, 3, 6, 1, 4, 7, 2, 5>>[i + 1]

\* at least one measurement has been made; sizes[idx - 1] is the last size measured
HasMeasured == idx > 0 /\ pc \in {"measure", "exit"}

\* C15: for every input configuration the Driver either exits before any
\* measurement or measures only sizes W with W >= 2 * node_stride and
\* min_bytes <= W <= max_bytes, so that W / node_stride >= 2 without the
\* max(2, .) floor.
C15_Clamped ==
    HasMeasured =>
        LET W == sizes[idx]
        IN  /\ W >= 2 * opt.node_stride
            /\ opt.min_bytes <= W /\ W <= opt.max_bytes
            /\ W \div opt.node_stride >= 2

\* C16: for every measured size W, num_nodes = max(2, W / node_stride) is at
\* most max_nodes = allocated_bytes / node_stride: every permutation entry
\* written lies inside the Permutation scratch and every next-pointer word
\* written lies inside the allocated Buffer.
C16_WithinAllocation ==
    HasMeasured =>
        /\ nodes = Max(2, sizes[idx] \div opt.node_stride)
        /\ nodes <= max_nodes
        /\ DOMAIN perm \subseteq 0..(max_nodes - 1)
        /\ \A o \in DOMAIN mem : o + PtrSize <= alloc_bytes

-----------------------------------------------------------------------------
(* BoundaryDetector.  ns_per_access is an integer here and plateau_avg is   *)
(* the exact quotient plateau_sum / plateau_count, so                       *)
(*   ratio = ns / plateau_avg = (ns * plateau_count) / plateau_sum          *)
(* and a comparison of ratio with a constant is cross-multiplied.  With     *)
(* plateau_sum = 0 the cross-multiplied form gives what IEEE division       *)
(* gives: x / 0 is +inf for x > 0 (above any threshold) and NaN for x = 0   *)
(* (every comparison false).                                                *)

\* ratio > jump_threshold, with jump_threshold = 1.25
JumpExceedsAbsolute(ns, plateau_sum, plateau_count) ==
    ns * plateau_count > plateau_sum + plateau_count
JumpExceeds(ns, plateau_sum, plateau_count) ==
    4 * ns * plateau_count > 5 * plateau_sum

\* ratio_next > (jump_threshold * 0.95), which is 1.1875 = 19/16
LookaheadNever(ns_next, plateau_sum, plateau_count) == FALSE
LookaheadAlways(ns_next, plateau_sum, plateau_count) == TRUE
LookaheadExceeds(ns_next, plateau_sum, plateau_count) ==
    16 * ns_next * plateau_count > 19 * plateau_sum

\* (int)(i - last_boundary_idx) >= min_plateau_points
PlateauLongEnough(i, last_boundary_idx) == i - last_boundary_idx >= 2

\* the sample whose size is reported for a boundary found at i
BoundarySampleAtJump(i) == i
BoundarySample(i) == i - 1

\* if (found < out_cap) { out[found] = ...; } found++;
FoundAfter(found, out_cap) == found + 1

\* the for loop, from C index i, over the C array s[0 .. n-1] (s[i] is smp[i + 1])
RECURSIVE DetectLoop(_, _, _, _, _, _, _, _)
DetectLoop(smp, i, plateau_sum, plateau_count, last_boundary_idx, b, out_cap, n) ==
    IF i < n
    THEN LET ns == smp[i + 1].ns_per_access
             sustained ==
                 /\ JumpExceeds(ns, plateau_sum, plateau_count)
                 /\ PlateauLongEnough(i, last_boundary_idx)
                 /\ IF i + 1 < n
                    THEN LookaheadExceeds(smp[i + 2].ns_per_access,
                                          plateau_sum, plateau_count)
                    ELSE TRUE
         IN  IF sustained
             THEN LET o == IF b.found < out_cap
                           THEN Append(b.out,
                                  [approx_size_bytes |->
                                       smp[BoundarySample(i) + 1].working_set_bytes,
                                   ratio |-> <<ns * plateau_count, plateau_sum>>])
                           ELSE b.out
                      nb == [found |-> FoundAfter(b.found, out_cap), out |-> o,
                             at |-> Append(b.at, i)]
                  IN  DetectLoop(smp, i + 1, ns, 1, i, nb, out_cap, n)
             ELSE DetectLoop(smp, i + 1, plateau_sum + ns, plateau_count + 1,
                             last_boundary_idx, b, out_cap, n)
    ELSE b

\* returns found, the entries out[0 .. min(found, out_cap) - 1] it wrote, and
\* (for the properties) the indices i at which it found a boundary
detect_boundaries(smp, n, out_cap) ==
    IF n = 0
    THEN NoBounds
    ELSE DetectLoop(smp, 1, smp[1].ns_per_access, 1, 0, NoBounds, out_cap, n)

\* main: Boundary bounds[8]; nb = detect_boundaries(samples, num_sizes, bounds, 8)
Detect ==
    /\ pc = "detect"
    /\ bounds' = detect_boundaries(samples, Len(samples), OutCap)
    /\ pc' = "summary"
    /\ UNCHANGED <<opt, max_samples, sizes, driverVars, samples, xform,
                   bounds_x, printed, measureVars>>
    /\ UNCHANGED <<rngVars, timingVars>>

\* main: for (i = 0; i < nb; ++i) printf(..., bounds[i].approx_size_bytes, bounds[i].ratio)
\* bounds[] has 8 entries; an entry the detector did not write is not defined
PrintSummary ==
    /\ pc = "summary"
    /\ printed' = [i \in 1..bounds.found |->
                      IF i <= Len(bounds.out)
                      THEN [read |-> "written", entry |-> bounds.out[i]]
                      ELSE [read |-> IF i <= OutCap THEN "uninitialized"
                                     ELSE "out of bounds",
                            entry |-> NoEntry]]
    /\ pc' = "transformed"
    /\ UNCHANGED <<opt, max_samples, sizes, driverVars, samples, xform, bounds,
                   bounds_x, measureVars>>
    /\ UNCHANGED <<rngVars, timingVars>>

\* the curve with every latency ns replaced by a * ns + b
Transformed(smp, a, b) ==
    [i \in 1..Len(smp) |-> [smp[i] EXCEPT !.ns_per_access = a * @ + b]]

\* detect_boundaries applied to the transformed curve
DetectTransformed ==
    /\ pc = "transformed"
    /\ bounds_x' = detect_boundaries(Transformed(samples, xform[1], xform[2]),
                                     Len(samples), OutCap)
    /\ pc' = "exit"
    /\ UNCHANGED <<opt, max_samples, sizes, driverVars, samples, xform, bounds,
                   printed, measureVars>>
    /\ UNCHANGED <<rngVars, timingVars>>

-----------------------------------------------------------------------------
(* SpecDetect: detect_boundaries over bounded sample curves *)

\* the longest curve of arbitrary latencies
MaxCurveLen == 5
\* the longest staircase curve
MaxStairLen == 20

LatencyChoices == {0, 1, 2, 4, 5}
TransformChoices == {<<1, 0>>, <<2, 0>>, <<3, 0>>, <<1, 3>>}

\* the sizes of the default run
DefaultSizes == generate_sizes(DefaultOpt.min_bytes, DefaultOpt.max_bytes, MaxSamples)

\* the curve with the latencies lat[1..n] at the first n sizes of the default run
Curve(lat) ==
    [i \in 1..Len(lat) |->
        [working_set_bytes |-> DefaultSizes[i], ns_per_access |-> lat[i]]]

\* 1, 1, 2, 2, 4, 4, ...: the latency doubles every second sample
Staircase(n) == [i \in 1..n |-> 2^((i - 1) \div 2)]

\* nine samples (working_set_bytes, ns_per_access) with the latencies in
\* tenths of a nanosecond: 1.0 is 10
SyntheticCurve ==
    << [working_set_bytes |-> 4096,    ns_per_access |-> 10],
       [working_set_bytes |-> 8192,    ns_per_access |-> 10],
       [working_set_bytes |-> 16384,   ns_per_access |-> 10],
       [working_set_bytes |-> 32768,   ns_per_access |-> 10],
       [working_set_bytes |-> 65536,   ns_per_access |-> 25],
       [working_set_bytes |-> 131072,  ns_per_access |-> 26],
       [working_set_bytes |-> 262144,  ns_per_access |-> 27],
       [working_set_bytes |-> 1048576, ns_per_access |-> 80],
       [working_set_bytes |-> 4194304, ns_per_access |-> 82] >>

InitDetect ==
    /\ pc = "detect"
    /\ opt = DefaultOpt
    /\ max_samples = MaxSamples
    /\ sizes = <<>>
    /\ \/ \E n \in 0..MaxCurveLen : \E lat \in [1..n -> LatencyChoices] :
             samples = Curve(lat)
       \/ \E n \in (MaxCurveLen + 1)..MaxStairLen : samples = Curve(Staircase(n))
       \/ samples = SyntheticCurve
    /\ xform \in TransformChoices
    /\ bounds = NoBounds /\ bounds_x = NoBounds /\ printed = <<>>
    /\ DriverIdle /\ MeasureIdle
    /\ RngIdle /\ TimingIdle

NextDetect == Detect \/ PrintSummary \/ DetectTransformed

SpecDetect == InitDetect /\ [][NextDetect]_vars


Detected == pc \in {"summary", "transformed", "exit"} /\ samples # <<>>

\* C4: the number of boundaries detect_boundaries returns to the Driver, which
\* the Driver reads from its 8-entry array, is at most 8.
C4_AtMostEight == Detected => bounds.found <= OutCap

\* the curve is a samples of latency c >= 1 followed by b >= 1 samples of 2c
StepCurve(a, c) ==
    /\ a >= 2 /\ a < Len(samples) /\ c >= 1
    /\ \A i \in 1..Len(samples) :
          samples[i].ns_per_access = (IF i <= a THEN c ELSE 2 * c)

\* C5: on a curve of a >= 2 samples of latency c followed by b >= 1 samples of
\* latency 2c, exactly one boundary is emitted: its size is that of the last
\* sample of latency c (C index a - 1) and its ratio is 2.
C5_SingleStep ==
    \A a \in 2..Len(samples), c \in LatencyChoices :
        (Detected /\ StepCurve(a, c)) =>
            /\ bounds.found = 1
            /\ Len(bounds.out) = 1
            /\ bounds.out[1].approx_size_bytes = samples[a].working_set_bytes
            /\ bounds.out[1].ratio[1] = 2 * bounds.out[1].ratio[2]
            /\ bounds.out[1].ratio[2] > 0

\* a step curve of five samples, three of them on the low plateau, detected
C5_Witness ==
    /\ Detected
    /\ Len(samples) = 5
    /\ StepCurve(3, 2)
    /\ bounds.found = 1

\* C6 as stated: for every transform ns -> a*ns + b with a > 0, b >= 0 the
\* boundaries of the transformed curve are found at the same sample indices.
C6_Original == pc = "exit" => bounds_x.at = bounds.at

\* C6 amended: scaling all latencies by a factor a > 0 (b = 0) leaves the set
\* of sample indices at which a boundary is emitted unchanged.
C6_Scaling == (pc = "exit" /\ xform[2] = 0) => bounds_x.at = bounds.at

\* a curve scaled by 3 on which boundaries are found
C6_Witness ==
    /\ pc = "exit"
    /\ xform = <<3, 0>>
    /\ bounds.found >= 1
    /\ bounds_x.at = bounds.at
    /\ bounds_x.out[1].ratio[1] = 3 * bounds.out[1].ratio[1]

\* C12: on the nine-sample synthetic curve detect_boundaries emits exactly two
\* boundaries, in this order: 32 KiB with ratio 2.5, then 256 KiB with ratio
\* 8.0 divided by the mean of 2.5, 2.6 and 2.7, which is about 3.0.
C12_Synthetic ==
    (Detected /\ samples = SyntheticCurve) =>
        /\ bounds.found = 2
        /\ Len(bounds.out) = 2
        /\ bounds.out[1].approx_size_bytes = 32768
        /\ 2 * bounds.out[1].ratio[1] = 5 * bounds.out[1].ratio[2]
        /\ bounds.out[2].approx_size_bytes = 262144
        /\ (25 + 26 + 27) * bounds.out[2].ratio[1] = (80 * 3) * bounds.out[2].ratio[2]
        /\ 10 * bounds.out[2].ratio[1] >= 30 * bounds.out[2].ratio[2]
        /\ 10 * bounds.out[2].ratio[1] < 31 * bounds.out[2].ratio[2]
        /\ \A i \in 1..2 : bounds.out[i].ratio[2] > 0

\* the synthetic curve detected and its two boundaries printed
C12_Witness ==
    /\ pc = "transformed"
    /\ samples = SyntheticCurve
    /\ Len(printed) = 2
    /\ printed[2].read = "written"
    /\ printed[2].entry.approx_size_bytes = 262144

\* the curve has latency c everywhere but at C index j, where it has e > c
SpikeCurve(j, c, e) ==
    /\ j >= 1 /\ j < Len(samples) /\ e > c
    /\ \A i \in 1..Len(samples) :
          samples[i].ns_per_access = (IF i = j + 1 THEN e ELSE c)

\* C13 as stated: for every curve that is flat except for one elevated sample,
\* at any index in [1, n), detect_boundaries emits zero boundaries.
C13_Original ==
    \A j \in 1..(Len(samples) - 1), c \in LatencyChoices, e \in LatencyChoices :
        (Detected /\ SpikeCurve(j, c, e)) => bounds.found = 0

\* C13 amended: for every curve that is flat except for one elevated sample at
\* an index in [1, n-1), detect_boundaries emits zero boundaries; when the
\* elevated sample is the last one (index n-1), no lookahead is possible and one
\* boundary is emitted, at the size of sample n-2, exactly when n-1 >= 2 and
\* the sample exceeds 1.25 times the flat latency.
C13_SingleSpike ==
    \A j \in 1..(Len(samples) - 1), c \in LatencyChoices, e \in LatencyChoices :
        (Detected /\ SpikeCurve(j, c, e)) =>
            IF j < Len(samples) - 1
            THEN bounds.found = 0
            ELSE IF j >= 2 /\ 4 * e > 5 * c
                 THEN /\ bounds.found = 1
                      /\ bounds.out[1].approx_size_bytes = samples[j].working_set_bytes
                 ELSE bounds.found = 0

\* a five-sample curve with one elevated sample in the middle, detected
C13_Witness ==
    /\ Detected
    /\ Len(samples) = 5
    /\ SpikeCurve(2, 1, 4)
    /\ bounds.found = 0

-----------------------------------------------------------------------------
(* Measurer: the timing loop of measure_ns_per_access.                      *)
(*                                                                          *)
(* steps is a uint64_t that starts at s0 = max(1000, 16 * nodes) and is     *)
(* only ever doubled, so its value is s0 * 2^e: the model holds it as the   *)
(* record [m |-> s0, e |-> e], which is exact in 64 bits with no number     *)
(* above s0 or 2^30 computed.  (size_t)steps is steps where size_t has 64   *)
(* bits.  A clock reading pair gives dt = t1 - t0, any uint64_t.            *)

\* m * 2^e > 2^k, for m < 2^30
GtPow2(s, k) ==
    IF s.m = 0 THEN FALSE
    ELSE IF s.e > k THEN TRUE
    ELSE IF k - s.e >= 30 THEN FALSE
    ELSE s.m > 2^(k - s.e)

\* uint64_t steps = nodes * 16ull; if (steps < 1000ull) steps = 1000ull;
StepsInit(num_nodes) ==
    [m |-> IF num_nodes * 16 < 1000 THEN 1000 ELSE num_nodes * 16, e |-> 0]

\* steps > (1ull << 62)
StepsOverCapLoose(s) == GtPow2(s, 63)
StepsOverCapNever(s) == FALSE
StepsOverCap(s) == GtPow2(s, 62)

\* steps *= 2, in 64 bits: (m * 2^(e+1)) mod 2^64 = (m mod 2^(63-e)) * 2^(e+1)
DoubleTwice(s) == [s EXCEPT !.e = @ + 2]
Double(s) ==
    IF s.e >= 63 THEN [m |-> 0, e |-> 0]
    ELSE IF 63 - s.e >= 30 THEN [s EXCEPT !.e = @ + 1]
    ELSE [m |-> s.m % 2^(63 - s.e), e |-> s.e + 1]

\* uint64_t target_ns = (uint64_t)opt->target_ms * 1000000ull
TargetNs(o) == o.target_ms * 1000000

\* if (dt >= target_ns / 2 || steps > (1ull << 62)) break;
CalibrationDone(dt, target_ns, s) == dt >= target_ns \div 2 \/ StepsOverCap(s)

\* ns_per < best_ns_per, for ns_per = dt / steps and best = [dt, steps] or 1e300;
\* the step counts of one call are s0 * 2^e with the same s0, and steps never
\* decreases, so dt / 2^e < best.dt / 2^best.e is dt < best.dt * 2^(e - best.e)
NsPerLess(dt, s, best) ==
    IF best.none THEN TRUE
    ELSE LET d == best.steps.e - s.e
         IN  IF d >= 0
             THEN (IF d >= 30 THEN dt = 0 /\ best.dt > 0
                   ELSE dt * 2^d < best.dt)
             ELSE (IF -d >= 30 THEN best.dt > 0
                   ELSE dt \div 2^(-d) < best.dt)

\* chase(head, (size_t)steps) of a timed run
Chased(c, s, is_recorded) ==
    [runs |-> c.runs + 1,
     first |-> IF c.runs = 0 THEN s ELSE c.first,
     last |-> s,
     recorded |-> IF is_recorded THEN Append(c.recorded, s) ELSE c.recorded]

\* lines 409-414: target_ns, steps, best_ns_per, r = 0
MeasureStart ==
    /\ pc = "timing"
    /\ steps' = StepsInit(nodes)
    /\ best_ns_per' = NoBest
    /\ r' = 0
    /\ pc' = IF 0 < opt.repeats THEN "calibrate" ELSE "return"
    /\ UNCHANGED <<opt, max_samples, sizes, driverVars, detectVars, chased>>
    /\ UNCHANGED <<rngVars, timingVars>>

\* one pass of for (;;): a timed run of steps, then the break or steps *= 2
CalibrateRun ==
    /\ pc = "calibrate"
    /\ \E dt \in {0, TargetNs(opt) \div 2, TargetNs(opt) + 1} :
          /\ chased' = Chased(chased, steps, FALSE)
          /\ IF CalibrationDone(dt, TargetNs(opt), steps)
             THEN pc' = "record" /\ steps' = steps
             ELSE pc' = "calibrate" /\ steps' = Double(steps)
    /\ UNCHANGED <<opt, max_samples, sizes, driverVars, detectVars, r, best_ns_per>>
    /\ UNCHANGED <<rngVars, timingVars>>

\* the recorded run of repeat r: ns_per = dt / steps, the best is kept, ++r
RecordRun ==
    /\ pc = "record"
    /\ \E dt \in {0, TargetNs(opt) + 1} :
          /\ chased' = Chased(chased, steps, TRUE)
          /\ best_ns_per' = IF NsPerLess(dt, steps, best_ns_per)
                            THEN [none |-> FALSE, dt |-> dt, steps |-> steps]
                            ELSE best_ns_per
    /\ r' = r + 1
    /\ pc' = IF r + 1 < opt.repeats THEN "calibrate" ELSE "return"
    /\ UNCHANGED <<opt, max_samples, sizes, driverVars, detectVars, steps>>
    /\ UNCHANGED <<rngVars, timingVars>>

\* return best_ns_per;
MeasureReturn ==
    /\ pc = "return"
    /\ pc' = "returned"
    /\ UNCHANGED <<opt, max_samples, sizes, driverVars, detectVars, measureVars>>
    /\ UNCHANGED <<rngVars, timingVars>>

-----------------------------------------------------------------------------
(* SpecMeasure: one call of measure_ns_per_access, from its timing loop on *)

\* the largest --repeats explored
MaxRepeats == 2

NodesChoices == {2, 4194304, SIZE_MAX}
TargetMsChoices == {0, 80}

InitMeasure ==
    /\ pc = "timing"
    /\ \E t \in TargetMsChoices, rep \in 0..MaxRepeats :
          opt = [DefaultOpt EXCEPT !.target_ms = t, !.repeats = rep]
    /\ max_samples = MaxSamples
    /\ sizes = <<>>
    /\ alloc_idx = 0 /\ alloc_bytes = 0 /\ raw = "allocated" /\ max_nodes = 0
    /\ perm = <<>> /\ mem = <<>> /\ idx = 0
    /\ nodes \in NodesChoices
    /\ stderr = <<>> /\ failures = 0 /\ exit_code = "running"
    /\ DetectIdle
    /\ steps = NoSteps /\ r = 0 /\ best_ns_per = NoBest /\ chased = NoRuns
    /\ RngIdle /\ TimingIdle

NextMeasure == MeasureStart \/ CalibrateRun \/ RecordRun \/ MeasureReturn

SpecMeasure == InitMeasure /\ [][NextMeasure]_vars

\* m * 2^e <= 2^k
LePow2(s, k) == ~GtPow2(s, k)

\* C7 as stated: once the first recorded run has been taken, steps is never
\* changed again.
C7_Original == [][(pc # "timing" /\ r >= 1) => steps' = steps]_vars

\* C7 amended: within one call, steps changes only in a calibration run, which
\* doubles it; each repeat's recorded run leaves steps as its calibration left
\* it and passes that count to chase; so the recorded runs of one call use
\* step counts that never decrease and may differ between repeats.
C7_CalibrationOnly ==
    [][/\ (pc # "timing" /\ steps' # steps) =>
              /\ pc = "calibrate"
              /\ r' = r
              /\ steps'.m = steps.m /\ steps'.e = steps.e + 1
       /\ pc = "record" =>
              /\ steps' = steps
              /\ chased'.last = steps
              /\ chased'.recorded = Append(chased.recorded, steps)]_vars

\* two recorded runs of one call with different step counts
C7_Witness ==
    /\ Len(chased.recorded) >= 2
    /\ chased.recorded[2].e > chased.recorded[1].e

\* C8 as stated: the step count passed to chase starts at max(1000, 16*nodes)
\* and never exceeds 2^62.
C8_Original ==
    chased.runs >= 1 =>
        /\ chased.first = [m |-> Max(1000, 16 * nodes), e |-> 0]
        /\ LePow2(chased.last, 62)

\* C8 amended: the step count passed to chase starts at max(1000, 16*nodes)
\* and never exceeds 2^63 (steps is doubled only while it is at most 2^62).
C8_StepsBound ==
    chased.runs >= 1 =>
        /\ chased.first = [m |-> Max(1000, 16 * nodes), e |-> 0]
        /\ LePow2(chased.last, 63)

\* a run of 2^63 steps, reached from 2^26 = 16 * 2^22 by doubling
C8_Witness ==
    /\ chased.runs >= 1
    /\ nodes = 4194304
    /\ chased.last = [m |-> 67108864, e |-> 37]

\* the program is sequential: a step that can be taken is taken
SpecMeasureFair == SpecMeasure /\ WF_vars(NextMeasure)

\* C17: measure_ns_per_access always terminates: for every sequence of clock
\* readings, target_ms and repeats, it returns; every change of steps in a
\* calibration run is an exact doubling of a count of at most 2^62, so the
\* 64-bit count never wraps; and the value returned is the latency of a
\* recorded run whenever repeats >= 1.
C17_Terminates ==
    /\ <>(pc = "returned")
    /\ [](pc = "returned" =>
            /\ r = opt.repeats
            /\ opt.repeats >= 1 => ~best_ns_per.none)
    /\ [][(pc = "calibrate" /\ steps' # steps) =>
              /\ LePow2(steps, 62)
              /\ steps'.m = steps.m /\ steps'.e = steps.e + 1]_vars

\* a call returned although the clock never advanced: its last run was longer
\* than 2^62 steps and took 0 ns
C17_Witness ==
    /\ pc = "returned"
    /\ opt.target_ms > 0
    /\ r = MaxRepeats
    /\ GtPow2(chased.last, 62)
    /\ ~best_ns_per.none /\ best_ns_per.dt = 0

-----------------------------------------------------------------------------
(* SpecSizes: generate_sizes on bounded inputs *)

SizeChoices ==
    {1, 512, 1000, 1024, 1025, 1536, 2048, 3000, 4096, 131072, 163840,
     1048576, 1310720, 2097152, SIZE_MAX \div 2 + 1, SIZE_MAX}

CapChoices == {0, 1, SmallCap, MaxSamples}

InitSizes ==
    /\ pc = "generate"
    /\ \E lo \in SizeChoices, hi \in SizeChoices :
          /\ lo <= hi
          /\ opt = [DefaultOpt EXCEPT !.min_bytes = lo, !.max_bytes = hi]
    /\ max_samples \in CapChoices
    /\ sizes = <<>>
    /\ DriverIdle /\ DetectIdle /\ MeasureIdle
    /\ RngIdle /\ TimingIdle

SpecSizes == InitSizes /\ [][GenerateSizes]_vars

SizesReturned == pc \in {"alloc", "exit"}

Pow2s == {2^e : e \in 0..(SizeBits - 1)}

StrictlyAscending(s) == \A i \in 1..(Len(s) - 1) : s[i] < s[i + 1]

SizesInRange ==
    \A i \in 1..Len(sizes) : opt.min_bytes <= sizes[i] /\ sizes[i] <= opt.max_bytes

SizesHas(v) == \E i \in 1..Len(sizes) : sizes[i] = v

\* C3 as stated: strictly ascending, in [min_bytes, max_bytes], holding every
\* power of two of [min_bytes, max_bytes], no longer than the capacity.
C3_Original ==
    SizesReturned =>
        /\ StrictlyAscending(sizes)
        /\ SizesInRange
        /\ \A p \in Pow2s : (opt.min_bytes <= p /\ p <= opt.max_bytes) => SizesHas(p)
        /\ Len(sizes) <= max_samples

\* C3 amended: the list returned by generate_sizes is strictly ascending, every
\* value lies in [min_bytes, max_bytes], its length is at most the capacity,
\* and, when the capacity was not reached, it holds every power of two p with
\* max(min_bytes, 1024) <= p <= max_bytes.
C3_Sizes ==
    SizesReturned =>
        /\ StrictlyAscending(sizes)
        /\ SizesInRange
        /\ Len(sizes) <= max_samples
        /\ Len(sizes) < max_samples =>
              \A p \in Pow2s :
                  (Max(opt.min_bytes, MinSizePow2) <= p /\ p <= opt.max_bytes)
                      => SizesHas(p)

\* a returned list under the capacity, from min_bytes below 1024, holding
\* several powers of two and the values between them
C3_Witness ==
    /\ SizesReturned
    /\ opt.min_bytes < MinSizePow2
    /\ Len(sizes) < max_samples
    /\ SizesHas(1024) /\ SizesHas(1152) /\ SizesHas(2048) /\ SizesHas(4096)
    /\ Len(sizes) >= 17

-----------------------------------------------------------------------------
(* SpecRng: one call rng_uniform(r, n), a word of rng_next per loop pass *)

\* for (;;) { x = rng_next(r); if (x >= threshold) return (size_t)(x % n); }
RngUniformDraw ==
    /\ pc = "draw"
    /\ \E x \in 0..RngMax :
          /\ rng_x' = x
          /\ IF rng_accepts(x, rng_n)
             THEN rng_ret' = rng_uniform(x, rng_n) /\ pc' = "returned"
             ELSE rng_ret' = rng_ret /\ pc' = "draw"
    /\ UNCHANGED <<opt, max_samples, sizes, driverVars, detectVars, measureVars,
                   rng_n, timingVars>>

\* n is a size_t and a word has at least as many bits: 1 <= n <= RngMax
InitRng ==
    /\ pc = "draw"
    /\ opt = DefaultOpt /\ max_samples = MaxSamples /\ sizes = <<>>
    /\ rng_n \in 1..RngMax /\ rng_x = 0 /\ rng_ret = NoValue
    /\ DriverIdle /\ DetectIdle /\ MeasureIdle /\ TimingIdle

SpecRng == InitRng /\ [][RngUniformDraw]_vars

\* the number of words of 0..RngMax for which rng_uniform(n) returns v
Hits(n, v) ==
    Cardinality({x \in 0..RngMax : rng_accepts(x, n) /\ rng_uniform(x, n) = v})

\* C11: rng_uniform(n) is unbiased: over all 2^w values of one draw, the
\* accepted draws map to each value of [0, n) equally often, and every
\* returned value lies in [0, n).
C11_Unbiased ==
    pc = "returned" =>
        /\ rng_ret \in 0..(rng_n - 1)
        /\ \A v \in 0..(rng_n - 1) : Hits(rng_n, v) = Hits(rng_n, 0)

-----------------------------------------------------------------------------
(* SpecTiming: gptoss.c, timing_cache_detection.  Its size_t has 64 bits;   *)
(* current_size never exceeds 2 * MAX_ARRAY = 2^27, so its sizes are plain  *)
(* integers here.  measure_access_latency returns any latency, or the       *)
(* process exits when aligned_alloc fails.                                  *)

CACHE_LINE == 64
MAX_ARRAY == 67108864

\* latency > prev_lat * 120 / 100, in integer arithmetic
LatencyJump(latency, prev) == latency > (prev * 120) \div 100

\* if (prev_size && prev_size < MAX_ARRAY)
ReportsLast(size) == size # 0 /\ size < MAX_ARRAY

\* one pass of while (current_size <= MAX_ARRAY)
TimingMeasure ==
    /\ pc = "timing_loop"
    /\ current_size <= MAX_ARRAY
    /\ \E latency \in {0, 10, 12, 13}, alloc_ok \in BOOLEAN :
          IF ~alloc_ok
          THEN \* measure_access_latency: perror("aligned_alloc"); exit(1);
               /\ pc' = "exit" /\ exit_code' = "1"
               /\ stderr' = Append(stderr, "aligned_alloc")
               /\ UNCHANGED timingVars
          ELSE /\ tested' = Append(tested, current_size)
               /\ current_size' = 2 * current_size
               /\ IF prev_size = 0
                  THEN /\ prev_size' = current_size
                       /\ prev_lat' = latency
                       /\ UNCHANGED <<level, jumps, reported>>
                  ELSE IF LatencyJump(latency, prev_lat)
                  THEN /\ reported' = Append(reported, prev_size)
                       /\ level' = level + 1
                       /\ prev_size' = 0
                       /\ jumps' = jumps + 1
                       /\ UNCHANGED prev_lat
                  ELSE /\ prev_size' = current_size
                       /\ prev_lat' = latency
                       /\ UNCHANGED <<level, jumps, reported>>
               /\ UNCHANGED <<pc, exit_code, stderr>>
    /\ UNCHANGED <<opt, max_samples, sizes, alloc_idx, alloc_bytes, raw, max_nodes,
                   perm, mem, idx, nodes, failures>>
    /\ UNCHANGED <<detectVars, measureVars, rngVars>>

\* the code after the loop
TimingAfterLoop ==
    /\ pc = "timing_loop"
    /\ current_size > MAX_ARRAY
    /\ reported' = IF ReportsLast(prev_size) THEN Append(reported, prev_size)
                                              ELSE reported
    /\ pc' = "timing_done"
    /\ UNCHANGED <<opt, max_samples, sizes, driverVars, detectVars, measureVars,
                   rngVars, current_size, prev_size, prev_lat, level, tested, jumps>>

InitTiming ==
    /\ pc = "timing_loop"
    /\ opt = DefaultOpt /\ max_samples = MaxSamples /\ sizes = <<>>
    /\ current_size = CACHE_LINE /\ prev_size = 0 /\ prev_lat = 0 /\ level = 1
    /\ tested = <<>> /\ jumps = 0 /\ reported = <<>>
    /\ DriverIdle /\ DetectIdle /\ MeasureIdle /\ RngIdle

NextTiming == TimingMeasure \/ TimingAfterLoop

SpecTiming == InitTiming /\ [][NextTiming]_vars

\* C18: if no latency jump is observed for any array size from 64 bytes up to
\* MAX_ARRAY, the largest array size tested is reported as a cache level by
\* the code after the loop.
C18_LargestReported ==
    (pc = "timing_done" /\ jumps = 0) =>
        /\ tested # <<>>
        /\ tested[1] = CACHE_LINE
        /\ Last(tested) = MAX_ARRAY
        /\ reported = <<Last(tested)>>

====
